---- MODULE Spec2Model ----
(***************************************************************************)
(* Model of calories_health.py: the Streamlit "Nutrition Analyzer" page.   *)
(* One Analyze click runs the whole handler: input validation, the Gemini  *)
(* image column and the CalorieNinjas text column, the latter through the  *)
(* st.cache_data memo of lookup_calories_calorieninjas.                    *)
(*                                                                         *)
(* Python strings are sequences of string chunks: the user's text is a     *)
(* sequence of one-character chunks (so that str.strip is computed), a     *)
(* message is a sequence of literal chunks and formatted values.           *)
(***************************************************************************)
EXTENDS Integers, Sequences, FiniteSets, TLC

\* The field names of the records below.  TLC keeps the fields of a record in
\* the order in which their names first occur; every record is written in
\* this order.
Fields ==
    [analyze |-> 0, body |-> 0, cache |-> 0, called |-> 0, calls |-> 0,
     calories |-> 0, client |-> 0,
     cls |-> 0, context |-> 0, crashed |-> 0, data |-> 0, fn |-> 0, gemini |-> 0,
     getvalue |-> 0, hasText |-> 0, hit |-> 0, http |-> 0, image |-> 0,
     image_parts |-> 0, isJson |-> 0, items |-> 0, json |-> 0, key |-> 0, kind |-> 0,
     lookup |-> 0, mime_type |-> 0, msg |-> 0, name |-> 0, num |-> 0, ok |-> 0,
     outcome |-> 0, prompt |-> 0, py |-> 0, query |-> 0, repr |-> 0, response |-> 0,
     result |-> 0, ret |-> 0, sent |-> 0, service |-> 0, serving_size |-> 0,
     setup |-> 0, status |-> 0, str |-> 0, svc |-> 0, tag |-> 0, text |-> 0,
     timeout |-> 0, type |-> 0, ui |-> 0, unified_input |-> 0, uploaded_file |-> 0,
     value |-> 0, widget |-> 0]

VARIABLES
    CALORIE_NINJAS_KEY, \* module global: TRUE when a lookup key is configured
    cache,              \* st.cache_data store of lookup_calories_calorieninjas
    service,            \* what the CalorieNinjas service answers right now
    httpLog,            \* per query string: requests.get calls made so far
    inp,                \* inputs of the last Analyze click
    ui,                 \* widgets the last Analyze click rendered, in order
    calls,              \* downstream calls the last Analyze click made
    probe               \* direct calls of the two helper functions

vars == <<CALORIE_NINJAS_KEY, cache, service, httpLog, inp, ui, calls, probe>>

-----------------------------------------------------------------------------
(* Bounds *)

MaxLen == 2     \* longest text typed into the text box
MaxCached == 1  \* distinct query strings looked up in one process lifetime
MaxItems == 2   \* longest items array in a lookup response
MaxMsg == 1     \* longest exception message, in chunks

-----------------------------------------------------------------------------
(* Python values *)

None == [py |-> "None"]

Return(v) == [tag |-> "return", value |-> v]

Raise(cls, msg) == [cls |-> cls, msg |-> msg, tag |-> "raise"]

\* The exception classes the imported libraries and the interpreter raise,
\* each with its direct base class.
Base(cls) ==
    CASE cls = "InvalidArgument" -> "GoogleAPIError"
      [] cls = "ResourceExhausted" -> "GoogleAPIError"
      [] cls = "NotFound" -> "GoogleAPIError"
      [] cls = "GoogleAPIError" -> "Exception"
      [] cls = "ConnectionError" -> "RequestException"
      [] cls = "Timeout" -> "RequestException"
      [] cls = "HTTPError" -> "RequestException"
      [] cls = "RequestsJSONDecodeError" -> "RequestException"
      [] cls = "RequestException" -> "Exception"
      [] cls = "ValueError" -> "Exception"
      [] cls = "TypeError" -> "Exception"
      [] cls = "AttributeError" -> "Exception"
      [] cls = "Exception" -> "BaseException"
      [] OTHER -> "BaseException"

RECURSIVE IsInstance(_, _)
\* `except base` catches an exception of class cls
IsInstance(cls, base) ==
    IF cls = base THEN TRUE
    ELSE IF cls = "BaseException" THEN FALSE
    ELSE IsInstance(Base(cls), base)

\* needle in haystack, for chunked strings: some chunk is the needle
Contains(haystack, needle) == \E i \in 1..Len(haystack) : haystack[i] = needle

IsSpace(c) == c = " "

RECURSIVE LStrip(_)
LStrip(s) == IF s # <<>> /\ IsSpace(Head(s)) THEN LStrip(Tail(s)) ELSE s

RECURSIVE RStrip(_)
RStrip(s) ==
    IF s # <<>> /\ IsSpace(s[Len(s)]) THEN RStrip(SubSeq(s, 1, Len(s) - 1)) ELSE s

\* str.strip()
Strip(s) == RStrip(LStrip(s))

\* `x or ""` on a string
OrEmpty(s) == IF s # <<>> THEN s ELSE <<>>

\* `not unified_input or not unified_input.strip()`
IsBlank(s) == s = <<>> \/ Strip(s) = <<>>

\* the element of a one-element set: The({e(x) : x \in {v}}) is e(v),
\* with v computed once
The(S) == CHOOSE x \in S : TRUE

RECURSIVE SeqsUpTo(_, _)
SeqsUpTo(S, n) ==
    IF n = 0 THEN {<<>>}
    ELSE LET shorter == SeqsUpTo(S, n - 1)
         IN shorter \cup {Append(s, x) : s \in {t \in shorter : Len(t) = n - 1}, x \in S}

-----------------------------------------------------------------------------
(* get_gemini_response.  The leading emoji of the messages are left out. *)

MsgKeyInvalid == <<"Your Google API key is invalid or expired. Renew it in Google AI Studio.">>
MsgQuota == <<"Google API quota exceeded. Try again later.">>
PrefixInvalidArgument == "Invalid argument: "
PrefixApiError == "Google API error: "
PrefixUnexpected == "Unexpected error: "

input_prompt == <<"You are an expert nutritionist. ...">>

\* getattr(response, "text", str(response))
ResponseText(response) == IF response.hasText THEN response.text ELSE response.repr

\* get_gemini_response without its last except clause
GeminiHandlersNoCatchAll(e) ==
    IF IsInstance(e.cls, "InvalidArgument") THEN
        IF Contains(e.msg, "API key expired") \/ Contains(e.msg, "API_KEY_INVALID")
        THEN Return(MsgKeyInvalid)
        ELSE Return(<<PrefixInvalidArgument>> \o e.msg)
    ELSE IF IsInstance(e.cls, "ResourceExhausted") THEN Return(MsgQuota)
    ELSE IF IsInstance(e.cls, "GoogleAPIError") THEN Return(<<PrefixApiError>> \o e.msg)
    ELSE e

\* The except clauses of get_gemini_response, in source order.
GeminiHandlers(e) ==
    IF IsInstance(e.cls, "InvalidArgument") THEN
        IF Contains(e.msg, "API key expired") \/ Contains(e.msg, "API_KEY_INVALID")
        THEN Return(MsgKeyInvalid)
        ELSE Return(<<PrefixInvalidArgument>> \o e.msg)
    ELSE IF IsInstance(e.cls, "ResourceExhausted") THEN Return(MsgQuota)
    ELSE IF IsInstance(e.cls, "GoogleAPIError") THEN Return(<<PrefixApiError>> \o e.msg)
    ELSE IF IsInstance(e.cls, "Exception") THEN Return(<<PrefixUnexpected>> \o e.msg)
    ELSE e

\* a second attempt after a quota failure
GeminiAttemptsRetry(request, client) ==
    IF client.tag = "raise" /\ IsInstance(client.cls, "ResourceExhausted")
    THEN <<request, request>> ELSE <<request>>

\* The generate_content calls one invocation makes, given the first outcome.
GeminiAttempts(request, client) == <<request>>

\* client: what model.generate_content does with the request, a raised
\* exception or a response object.  out is what the function does (returns or
\* raises), sent the requests handed to the client.
get_gemini_response(prompt_text, image_parts, user_text, client) ==
    LET request == [context |-> user_text,
                    image |-> IF image_parts # None /\ image_parts.items # <<>>
                              THEN image_parts.items[1] ELSE None,
                    prompt |-> prompt_text]
        body == IF client.tag = "raise" THEN client
                ELSE Return(ResponseText(client.response))
    IN [outcome |-> IF body.tag = "return" THEN body ELSE GeminiHandlers(body),
        sent |-> GeminiAttempts(request, client)]

-----------------------------------------------------------------------------
(* input_image_setup *)

\* An attribute read or method call on the uploaded file either yields a value
\* or raises.
Attr(v) == [ok |-> TRUE, value |-> v]
AttrRaises(cls) == [cls |-> cls, ok |-> FALSE]

UploadedFile(getvalue, type) == [getvalue |-> getvalue, py |-> "UploadedFile", type |-> type]

MimeStr(s) == [py |-> "str", str |-> s]

\* A rendered Streamlit element
Widget(w, body) == [body |-> body, widget |-> w]

\* input_image_setup without its except clause
SetupHandlersReraise(e) == [outcome |-> e, ui |-> <<>>]

\* The except clause of input_image_setup.  ui lists the elements rendered.
SetupHandlers(e) ==
    IF IsInstance(e.cls, "Exception")
    THEN [outcome |-> Return(None),
          ui |-> <<Widget("warning", <<"Unable to prepare image for upload: ">> \o e.msg)>>]
    ELSE [outcome |-> e, ui |-> <<>>]

input_image_setup(uploaded_file) ==
    IF uploaded_file = None THEN [outcome |-> Return(None), ui |-> <<>>]
    ELSE IF ~uploaded_file.getvalue.ok
         THEN SetupHandlers(Raise(uploaded_file.getvalue.cls, <<"getvalue">>))
    ELSE IF ~uploaded_file.type.ok
         THEN SetupHandlers(Raise(uploaded_file.type.cls, <<"type">>))
    ELSE [outcome |-> Return([items |-> <<[data |-> uploaded_file.getvalue.value,
                                           mime_type |-> uploaded_file.type.value]>>,
                              py |-> "list"]),
          ui |-> <<>>]

-----------------------------------------------------------------------------
(* lookup_calories_calorieninjas *)

MsgNoKey == <<"Calorie lookup unavailable: CALORIE_NINJAS_KEY not set.">>
MsgNoData == <<"No nutrition data found for that query.">>
PrefixTransport == "Error calling CalorieNinjas: "
PrefixLookupUnexpected == "Unexpected error in calorie lookup: "

\* JSON scalars; an object is a record of its keys with json |-> "object"
JNum(n) == [num |-> n]
JStr(s) == [str |-> s]
IsNum(v) == "num" \in DOMAIN v

\* dict.get(k, default)
DictGet(d, k, default) == IF k \in DOMAIN d THEN d[k] ELSE default

\* truth value of a JSON scalar
Truthy(v) == IF IsNum(v) THEN v.num # 0 ELSE v.str # ""

\* "{v}" inside an f-string
Fmt(v) == IF IsNum(v) THEN ToString(v.num) ELSE v.str

RECURSIVE JoinLines(_)
\* "\n".join(lines)
JoinLines(lines) ==
    IF lines = <<>> THEN <<>>
    ELSE IF Len(lines) = 1 THEN lines[1]
    ELSE lines[1] \o <<"\n">> \o JoinLines(Tail(lines))

\* the serving size printed whether or not there is one
ItemLineAlwaysServing(name, cal, serving) ==
    <<Fmt(name), " (", Fmt(serving), ") -- ", Fmt(cal), " kcal">>

\* One line of the result; " -- " stands for the em dash of the source.
ItemLine(name, cal, serving) ==
    IF Truthy(serving)
    THEN <<Fmt(name), " (", Fmt(serving), ") -- ", Fmt(cal), " kcal">>
    ELSE <<Fmt(name), " -- ", Fmt(cal), " kcal">>

RECURSIVE FormatItems(_, _, _)
\* The for loop over items and the three statements after it.
FormatItems(items, lines, total_cal) ==
    IF items = <<>>
    THEN Return(JoinLines(lines \o << <<"----">>,
                                      <<"Estimated total: ", ToString(total_cal), " kcal">> >>))
    ELSE LET item == Head(items)
         IN IF item.json # "object"
            THEN Raise("AttributeError", <<"object has no attribute 'get'">>)
            ELSE LET name == DictGet(item, "name", JStr("item"))
                     cal == DictGet(item, "calories", JNum(0))
                     serving == DictGet(item, "serving_size", JStr(""))
                 IN IF ~IsNum(cal)
                    THEN Raise("TypeError", <<"unsupported operand type(s) for +=">>)
                    ELSE FormatItems(Tail(items),
                                     Append(lines, ItemLine(name, cal, serving)),
                                     total_cal + cal.num)

\* The try block: the request, the status check, the decoding, the formatting.
\* svc is what the service does with the request.
LookupTry(free_text, svc) ==
    IF svc.kind = "transport" THEN Raise(svc.cls, <<svc.cls>>)
    ELSE IF svc.status >= 400 THEN Raise("HTTPError", <<ToString(svc.status)>>)
    ELSE IF ~svc.body.isJson THEN Raise(svc.body.cls, <<"Expecting value">>)
    ELSE LET data == svc.body.data
         IN IF data.json # "object"
            THEN Raise("AttributeError", <<"object has no attribute 'get'">>)
            ELSE LET items == DictGet(data, "items", <<>>)
                 IN IF items = <<>> THEN Return(MsgNoData)
                    ELSE FormatItems(items, <<>>, 0)

\* lookup_calories_calorieninjas without its last except clause
LookupHandlersNoCatchAll(e) ==
    IF IsInstance(e.cls, "RequestException") THEN Return(<<PrefixTransport>> \o e.msg)
    ELSE e

\* The except clauses of lookup_calories_calorieninjas, in source order.
LookupHandlers(e) ==
    IF IsInstance(e.cls, "RequestException") THEN Return(<<PrefixTransport>> \o e.msg)
    ELSE IF IsInstance(e.cls, "Exception") THEN Return(<<PrefixLookupUnexpected>> \o e.msg)
    ELSE e

\* The key check in front of the request.
LookupNeedsKey(key) == ~key

\* The function under the decorator.  http lists the requests.get calls made.
LookupBody(free_text, key, svc) ==
    IF LookupNeedsKey(key) THEN [http |-> <<>>, outcome |-> Return(MsgNoKey)]
    ELSE The({
         [http |-> <<[query |-> free_text, timeout |-> 8]>>,
          outcome |-> IF t.tag = "return" THEN t ELSE LookupHandlers(t)]
         : t \in {LookupTry(free_text, svc)}})

\* st.cache_data: the memo is a set of (key, value) entries, keyed by the
\* argument value.
CacheKey(free_text) == free_text

Cached(c, k) == \E e \in c : e.key = k

CacheValue(c, k) == (CHOOSE e \in c : e.key = k).value

\* an entry that expires once it has been served
CacheOnHitExpire(c, k) == {e \in c : e.key # k}

\* No ttl and no max_entries: serving an entry leaves the memo as it is.
CacheOnHit(c, k) == c

\* a memo that keeps no transport-error message
CacheStoreNoErrors(c, k, v) ==
    IF v # <<>> /\ Head(v) = PrefixTransport THEN c
    ELSE {e \in c : e.key # k} \cup {[key |-> k, value |-> v]}

\* Every returned value is stored.
CacheStore(c, k, v) == {e \in c : e.key # k} \cup {[key |-> k, value |-> v]}

\* The decorated function, as the page calls it.
lookup_calories_calorieninjas(free_text, key, svc, c) ==
    LET k == CacheKey(free_text)
    IN IF Cached(c, k)
       THEN [cache |-> CacheOnHit(c, k), hit |-> TRUE, http |-> <<>>,
             outcome |-> Return(CacheValue(c, k))]
       ELSE The({
            [cache |-> IF r.outcome.tag = "return" THEN CacheStore(c, k, r.outcome.value) ELSE c,
             hit |-> FALSE, http |-> r.http, outcome |-> r.outcome]
            : r \in {LookupBody(free_text, key, svc)}})

-----------------------------------------------------------------------------
(* The Analyze click handler *)

MsgNeedInput == <<"Please upload an image or type a dish/ingredients (or both).">>
MsgNoImage == <<"No image provided. Upload an image to run Gemini-based analysis.">>
MsgNotPrepared == <<"Could not prepare the image for analysis.">>
MsgKeyNotSet == <<"CalorieNinjas key not set. Add CALORIE_NINJAS_KEY to secrets or .env to enable text lookup.">>
MsgTypeADish == <<"Type a dish or short ingredient list above to run a quick text lookup.">>

\* the validation without the strip
RejectsNoStrip(unified_input, uploaded_file) == uploaded_file = None /\ unified_input = <<>>

\* The validation in front of the two columns.
Rejects(unified_input, uploaded_file) == uploaded_file = None /\ IsBlank(unified_input)

\* the text trimmed before it is passed on
ImgContextTrimmed(unified_input) == Strip(OrEmpty(unified_input))

\* The user_text argument of get_gemini_response
ImgContext(unified_input) == OrEmpty(unified_input)

\* An uncaught exception ends the script run; Streamlit shows it.
Uncaught(e) == <<Widget("exception", <<e.cls>> \o e.msg)>>

\* with col_img.  in: the inputs of the click.
ColImg(in) ==
    LET head == <<Widget("subheader", <<"Image analysis (Gemini)">>)>>
    IN IF in.uploaded_file = None
       THEN [crashed |-> FALSE, gemini |-> <<>>, setup |-> 0,
             ui |-> head \o <<Widget("info", MsgNoImage)>>]
       ELSE The({
            IF s.outcome.tag = "raise"
            THEN [crashed |-> TRUE, gemini |-> <<>>, setup |-> 1,
                  ui |-> head \o s.ui \o Uncaught(s.outcome)]
            ELSE IF s.outcome.value = None
            THEN [crashed |-> FALSE, gemini |-> <<>>, setup |-> 1,
                  ui |-> head \o s.ui \o <<Widget("warning", MsgNotPrepared)>>]
            ELSE The({
                 IF g.outcome.tag = "raise"
                 THEN [crashed |-> TRUE, gemini |-> g.sent, setup |-> 1,
                       ui |-> head \o s.ui \o Uncaught(g.outcome)]
                 ELSE [crashed |-> FALSE, gemini |-> g.sent, setup |-> 1,
                       ui |-> head \o s.ui \o <<Widget("write", g.outcome.value)>>]
                 : g \in {get_gemini_response(input_prompt, s.outcome.value,
                                              ImgContext(in.unified_input), in.client)}})
            : s \in {input_image_setup(in.uploaded_file)}})

\* the key tested before the text
TextBranchKeyFirst(unified_input, key) ==
    IF ~key THEN "info_key_not_set"
    ELSE IF IsBlank(unified_input) THEN "info_type_a_dish"
    ELSE "lookup"

\* The branch the text column takes.
TextBranch(unified_input, key) ==
    IF IsBlank(unified_input)
    THEN IF ~key THEN "info_key_not_set" ELSE "info_type_a_dish"
    ELSE "lookup"

\* with col_text.  c: the memo before the click.
ColText(in, key, c) ==
    LET head == <<Widget("subheader", <<"Quick text lookup (CalorieNinjas)">>)>>
        branch == TextBranch(in.unified_input, key)
    IN IF branch = "info_key_not_set"
       THEN [cache |-> c, crashed |-> FALSE, hit |-> FALSE, http |-> <<>>, lookup |-> <<>>,
             ui |-> head \o <<Widget("info", MsgKeyNotSet)>>]
       ELSE IF branch = "info_type_a_dish"
       THEN [cache |-> c, crashed |-> FALSE, hit |-> FALSE, http |-> <<>>, lookup |-> <<>>,
             ui |-> head \o <<Widget("info", MsgTypeADish)>>]
       ELSE The({
            [cache |-> r.cache, crashed |-> r.outcome.tag = "raise", hit |-> r.hit,
             http |-> r.http, lookup |-> <<in.unified_input>>,
             ui |-> head \o (IF r.outcome.tag = "raise" THEN Uncaught(r.outcome)
                             ELSE <<Widget("text", r.outcome.value)>>)]
            : r \in {lookup_calories_calorieninjas(in.unified_input, key, in.service, c)}})

NoCalls == [gemini |-> <<>>, hit |-> FALSE, http |-> <<>>, lookup |-> <<>>, setup |-> 0]

\* if analyze: ...   The whole handler: what it renders, calls and stores.
Handle(in, key, c) ==
    IF Rejects(in.unified_input, in.uploaded_file)
    THEN [cache |-> c, calls |-> NoCalls, ui |-> <<Widget("error", MsgNeedInput)>>]
    ELSE The({
         IF img.crashed
         THEN [cache |-> c,
               calls |-> [gemini |-> img.gemini, hit |-> FALSE, http |-> <<>>,
                          lookup |-> <<>>, setup |-> img.setup],
               ui |-> img.ui]
         ELSE The({
              [cache |-> txt.cache,
               calls |-> [gemini |-> img.gemini, hit |-> txt.hit, http |-> txt.http,
                          lookup |-> txt.lookup, setup |-> img.setup],
               ui |-> img.ui \o txt.ui]
              : txt \in {ColText(in, key, c)}})
         : img \in {ColImg(in)}})

-----------------------------------------------------------------------------
(* Inputs *)

Chars == {" ", "a"}

\* what can be typed into the text box
Texts == SeqsUpTo(Chars, MaxLen)

GoodFile == UploadedFile(Attr("bytes"), Attr(MimeStr("image/png")))

\* what the uploader can hand over: nothing, an image, a file whose type is
\* not an image type, a file with no type, a file whose type or content cannot
\* be read
Files ==
    {None,
     GoodFile,
     UploadedFile(Attr("bytes"), Attr(MimeStr("text/plain"))),
     UploadedFile(Attr("bytes"), Attr(None)),
     UploadedFile(Attr("bytes"), AttrRaises("AttributeError")),
     UploadedFile(AttrRaises("ValueError"), Attr(MimeStr("image/png")))}

ValidMime == {MimeStr("image/png"), MimeStr("image/jpeg")}

MsgChunks == {"API_KEY_INVALID", "API key expired", "400 bad image"}

ClientRaises == {"InvalidArgument", "ResourceExhausted", "NotFound", "GoogleAPIError",
                 "ValueError", "ConnectionError"}

TextResponse == [hasText |-> TRUE, repr |-> <<"<response>">>, text |-> <<"1. Rice - 200">>]

\* what model.generate_content can do
Clients ==
    {Raise(cls, msg) : cls \in ClientRaises, msg \in SeqsUpTo(MsgChunks, MaxMsg)}
    \cup {[response |-> r, tag |-> "response"] :
            r \in {TextResponse,
                   [hasText |-> TRUE, repr |-> <<"<response>">>, text |-> <<>>],
                   [hasText |-> FALSE, repr |-> <<"<response>">>]}}

ClientIdle == [tag |-> "idle"]

\* the client outcomes a click is tried with
HandlerClients ==
    {[response |-> TextResponse, tag |-> "response"],
     Raise("ResourceExhausted", <<>>),
     Raise("ValueError", <<>>)}

\* the uploads and client outcomes the memo is exercised with
MemoFiles == {None, GoodFile}
MemoClients == {[response |-> TextResponse, tag |-> "response"]}

Rice == [calories |-> JNum(200), json |-> "object", name |-> JStr("rice")]
Curry == [calories |-> JNum(350), json |-> "object", name |-> JStr("chicken curry"),
          serving_size |-> JStr("1 bowl")]
Tea == [calories |-> JStr("n/a"), json |-> "object", name |-> JStr("tea")]

ItemPool ==
    {Rice, Curry,
     [calories |-> JNum(78), json |-> "object", name |-> JStr("egg"),
      serving_size |-> JStr("")],
     [calories |-> JNum(50), json |-> "object"],
     [json |-> "object", name |-> JStr("water")],
     Tea,
     [json |-> "string"]}

NoBody == [cls |-> "ValueError", isJson |-> FALSE]

Ok(data) == [body |-> [data |-> data, isJson |-> TRUE], kind |-> "http", status |-> 200]

\* what the CalorieNinjas service can do with a request
Services ==
    {[cls |-> cls, kind |-> "transport"] : cls \in {"ConnectionError", "Timeout"}}
    \cup {[body |-> NoBody, kind |-> "http", status |-> st] : st \in {401, 500}}
    \cup {[body |-> [cls |-> cls, isJson |-> FALSE], kind |-> "http", status |-> 200] :
            cls \in {"RequestsJSONDecodeError", "ValueError"}}
    \cup {Ok([json |-> "array"]), Ok([json |-> "object"])}
    \cup {Ok([items |-> items, json |-> "object"]) : items \in SeqsUpTo(ItemPool, MaxItems)}

ServiceIdle == [kind |-> "idle"]

\* the service conditions a click is tried under
HandlerServices ==
    {[cls |-> "ConnectionError", kind |-> "transport"],
     Ok([items |-> <<>>, json |-> "object"]),
     Ok([items |-> <<Rice>>, json |-> "object"])}

-----------------------------------------------------------------------------
(* The page *)

NoClick == [analyze |-> FALSE]

ProbeOff == [fn |-> "none"]

NotCalled == [called |-> FALSE]

\* The script has run up to the Analyze button: the Google key is present
\* (the script stops otherwise), the lookup key may or may not be.
Init ==
    /\ CALORIE_NINJAS_KEY \in BOOLEAN
    /\ cache = {}
    /\ service \in HandlerServices
    /\ httpLog = [q \in Texts |-> 0]
    /\ inp = NoClick
    /\ ui = <<>>
    /\ calls = NoCalls
    /\ probe = ProbeOff

\* requests.get calls with query q among the requests made
Requests(http, q) == Cardinality({i \in 1..Len(http) : http[i].query = q})

\* One run of the handler: the client is consulted only for a prepared image,
\* the service only for a text lookup.
Click(unified_input, uploaded_file, client) ==
    \E in \in {[analyze |-> TRUE, client |-> client,
                service |-> IF IsBlank(unified_input) THEN ServiceIdle ELSE service,
                unified_input |-> unified_input, uploaded_file |-> uploaded_file]} :
        \E h \in {Handle(in, CALORIE_NINJAS_KEY, cache)} :
            /\ Cardinality(h.cache) <= MaxCached
            /\ inp' = in
            /\ ui' = h.ui
            /\ calls' = h.calls
            /\ cache' = h.cache
            /\ httpLog' = IF h.calls.http = <<>> THEN httpLog
                          ELSE [q \in DOMAIN httpLog |->
                                   httpLog[q] + Requests(h.calls.http, q)]
            /\ UNCHANGED <<CALORIE_NINJAS_KEY, service, probe>>

ClientsFor(uploaded_file, clients) ==
    IF input_image_setup(uploaded_file).outcome = Return(None) THEN {ClientIdle} ELSE clients

\* The user clicks Analyze with some text and some upload.
Analyze ==
    \E unified_input \in Texts, uploaded_file \in Files :
        \E client \in ClientsFor(uploaded_file, HandlerClients) :
            Click(unified_input, uploaded_file, client)

Next == Analyze

Spec == Init /\ [][Next]_vars

-----------------------------------------------------------------------------
(* The memo over a process lifetime, while the service changes its answers *)

\* The user clicks Analyze with some text, with or without an image.
AnalyzeText ==
    \E unified_input \in Texts, uploaded_file \in MemoFiles :
        \E client \in ClientsFor(uploaded_file, MemoClients) :
            Click(unified_input, uploaded_file, client)

\* The service starts answering differently.
UpstreamChange ==
    /\ service' \in HandlerServices \ {service}
    /\ UNCHANGED <<CALORIE_NINJAS_KEY, cache, httpLog, inp, ui, calls, probe>>

NextMemo == AnalyzeText \/ UpstreamChange

SpecMemo == Init /\ [][NextMemo]_vars

-----------------------------------------------------------------------------
(* The two helper functions called directly, on every outcome of the client *)
(* and of the service.                                                      *)

SampleParts == [items |-> <<[data |-> "bytes", mime_type |-> MimeStr("image/png")]>>, py |-> "list"]

SampleText == <<"a">>

InitPure ==
    /\ CALORIE_NINJAS_KEY = TRUE
    /\ cache = {}
    /\ service = ServiceIdle
    /\ httpLog = [q \in Texts |-> 0]
    /\ inp = NoClick
    /\ ui = <<>>
    /\ calls = NoCalls
    /\ probe \in {[client |-> c, fn |-> "get_gemini_response", image_parts |-> p,
                   result |-> NotCalled] : c \in Clients, p \in {None, SampleParts}}
            \cup {[fn |-> "lookup_calories_calorieninjas", key |-> k,
                   result |-> NotCalled, svc |-> s] : k \in BOOLEAN, s \in Services}

CallGemini ==
    /\ probe.fn = "get_gemini_response"
    /\ probe.result = NotCalled
    /\ probe' = [probe EXCEPT !.result =
                    [called |-> TRUE,
                     ret |-> get_gemini_response(input_prompt, probe.image_parts,
                                                 SampleText, probe.client)]]
    /\ UNCHANGED <<CALORIE_NINJAS_KEY, cache, service, httpLog, inp, ui, calls>>

CallLookup ==
    /\ probe.fn = "lookup_calories_calorieninjas"
    /\ probe.result = NotCalled
    /\ probe' = [probe EXCEPT !.result =
                    [called |-> TRUE,
                     ret |-> lookup_calories_calorieninjas(SampleText, probe.key,
                                                           probe.svc, {})]]
    /\ UNCHANGED <<CALORIE_NINJAS_KEY, cache, service, httpLog, inp, ui, calls>>

NextPure == CallGemini \/ CallLookup

SpecPure == InitPure /\ [][NextPure]_vars

-----------------------------------------------------------------------------
(* Properties *)

Count(u, w) == Cardinality({i \in 1..Len(u) : u[i].widget = w})

\* the result the text column shows, if it shows one
LookupShown(u) ==
    IF u # <<>> /\ u[Len(u)].widget = "text" THEN u[Len(u)].body ELSE <<"(no lookup result)">>

NoDownstreamCalls ==
    calls.setup = 0 /\ calls.gemini = <<>> /\ calls.lookup = <<>> /\ calls.http = <<>>

\* C1: an Analyze click with no upload and a text that is empty or blank after
\* trimming renders exactly one validation error and calls neither
\* input_image_setup, get_gemini_response nor lookup_calories_calorieninjas.
C1_BlankSubmissionRejected ==
    (inp.analyze /\ inp.uploaded_file = None /\ Strip(inp.unified_input) = <<>>)
        => /\ Count(ui, "error") = 1
           /\ ui = <<Widget("error", MsgNeedInput)>>
           /\ NoDownstreamCalls

C1_Witness ==
    /\ inp.analyze /\ inp.uploaded_file = None /\ inp.unified_input = <<" ">>
    /\ Count(ui, "error") = 1

\* C2: whatever the AI client raises and whatever goes wrong in the HTTP call,
\* the status check, the JSON decoding or the item formatting,
\* get_gemini_response and lookup_calories_calorieninjas return a value; neither
\* ends by raising.
C2_NothingEscapes ==
    probe.fn # "none" => (probe.result.called => probe.result.ret.outcome.tag = "return")

C2_Witness ==
    /\ probe.fn = "lookup_calories_calorieninjas"
    /\ probe.key
    /\ probe.svc = Ok([items |-> <<Tea>>, json |-> "object"])
    /\ probe.result.called
    /\ probe.result.ret.outcome.tag = "return"
    /\ Head(probe.result.ret.outcome.value) = PrefixLookupUnexpected

Unreadable(f) == ~f.getvalue.ok \/ ~f.type.ok

\* the upload is there and its content and type can be read
Prepared(f) == f # None /\ ~Unreadable(f)

Accepted == inp.analyze /\ (inp.uploaded_file # None \/ Strip(inp.unified_input) # <<>>)

\* C3: on an accepted click the text lookup is called iff the text is non-blank
\* after trimming, and the image path is entered iff an upload is present (the
\* AI client being called iff the upload could be prepared), each whatever the
\* other input is and whatever the other path produced.
C3_PathsIndependent ==
    Accepted =>
        /\ calls.lookup = (IF Strip(inp.unified_input) # <<>>
                           THEN <<inp.unified_input>> ELSE <<>>)
        /\ calls.setup = (IF inp.uploaded_file # None THEN 1 ELSE 0)
        /\ Len(calls.gemini) = (IF Prepared(inp.uploaded_file) THEN 1 ELSE 0)

C3_Witness ==
    /\ Accepted
    /\ inp.client = Raise("ValueError", <<>>)
    /\ Len(calls.gemini) = 1
    /\ calls.lookup = <<inp.unified_input>>
    /\ Count(ui, "text") = 1

\* the items the service's interface promises: objects with a name, a number of
\* calories and possibly a serving size
WellFormed(item) ==
    /\ item.json = "object"
    /\ "name" \in DOMAIN item
    /\ "calories" \in DOMAIN item /\ IsNum(item.calories)

ServingKnown(item) == "serving_size" \in DOMAIN item /\ item.serving_size.str # ""

RECURSIVE SumCalories(_)
SumCalories(items) ==
    IF items = <<>> THEN 0 ELSE Head(items).calories.num + SumCalories(Tail(items))

RECURSIVE SplitLines(_, _)
\* the lines of a chunked string; cur is the line being read
SplitLines(str, cur) ==
    IF str = <<>> THEN <<cur>>
    ELSE IF Head(str) = "\n" THEN <<cur>> \o SplitLines(Tail(str), <<>>)
    ELSE SplitLines(Tail(str), Append(cur, Head(str)))

ExpectedLine(item) ==
    IF ServingKnown(item)
    THEN <<item.name.str, " (", item.serving_size.str, ") -- ",
           ToString(item.calories.num), " kcal">>
    ELSE <<item.name.str, " -- ", ToString(item.calories.num), " kcal">>

SuccessfulLookup ==
    /\ probe.fn = "lookup_calories_calorieninjas"
    /\ probe.result.called
    /\ probe.key
    /\ probe.svc.kind = "http" /\ probe.svc.status = 200 /\ probe.svc.body.isJson
    /\ probe.svc.body.data.json = "object"
    /\ "items" \in DOMAIN probe.svc.body.data
    /\ \A i \in 1..Len(probe.svc.body.data.items) : WellFormed(probe.svc.body.data.items[i])

\* C4: for a successful response the result is determined by the items: the
\* no-data message for none, otherwise one line per item in order, with the
\* serving size in parentheses when there is one, then "----" and the total of
\* the items' calories.
C4_FormatOfItems ==
    SuccessfulLookup =>
        LET items == probe.svc.body.data.items
            out == probe.result.ret.outcome
            lines == SplitLines(out.value, <<>>)
        IN /\ out.tag = "return"
           /\ items = <<>> => out.value = MsgNoData
           /\ items # <<>> =>
                /\ Len(lines) = Len(items) + 2
                /\ \A i \in 1..Len(items) : lines[i] = ExpectedLine(items[i])
                /\ lines[Len(items) + 1] = <<"----">>
                /\ lines[Len(items) + 2] =
                       <<"Estimated total: ", ToString(SumCalories(items)), " kcal">>

C4_Witness ==
    /\ SuccessfulLookup
    /\ probe.svc.body.data.items = <<Rice, Curry>>
    /\ probe.result.ret.outcome.value =
           <<"rice", " -- ", "200", " kcal", "\n",
             "chicken curry", " (", "1 bowl", ") -- ", "350", " kcal", "\n",
             "----", "\n",
             "Estimated total: ", "550", " kcal">>

\* the kind a returned message belongs to
Kind(v) ==
    IF v = MsgKeyInvalid THEN "credential-invalid"
    ELSE IF v = MsgQuota THEN "quota-exceeded"
    ELSE IF v # <<>> /\ Head(v) = PrefixInvalidArgument THEN "bad-request"
    ELSE IF v # <<>> /\ Head(v) = PrefixApiError THEN "upstream-error"
    ELSE IF v # <<>> /\ Head(v) = PrefixUnexpected THEN "unexpected-error"
    ELSE "success"

\* the kind the outcome of the client call is to be mapped to
ExpectedKind(client) ==
    IF client.tag = "response" THEN "success"
    ELSE IF client.cls = "InvalidArgument"
         THEN IF \E i \in 1..Len(client.msg) :
                     client.msg[i] \in {"API_KEY_INVALID", "API key expired"}
              THEN "credential-invalid" ELSE "bad-request"
    ELSE IF client.cls = "ResourceExhausted" THEN "quota-exceeded"
    ELSE IF client.cls \in {"NotFound", "GoogleAPIError"} THEN "upstream-error"
    ELSE "unexpected-error"

GeminiCalled == probe.fn = "get_gemini_response" /\ probe.result.called

\* C5: get_gemini_response calls the AI client once, whatever the outcome, and
\* returns a message of exactly the kind of that outcome; on success the message
\* is the response's text (its string form when it has no text attribute), and
\* a failure message carries the exception's message where the source prints it.
C5_OneCallOneKind ==
    GeminiCalled =>
        LET client == probe.client
            out == probe.result.ret.outcome
        IN /\ Len(probe.result.ret.sent) = 1
           /\ out.tag = "return"
           /\ Kind(out.value) = ExpectedKind(client)
           /\ client.tag = "response" =>
                out.value = (IF client.response.hasText THEN client.response.text
                             ELSE client.response.repr)
           /\ ExpectedKind(client) \in {"bad-request", "upstream-error", "unexpected-error"}
                => Tail(out.value) = client.msg

C5_Witness ==
    /\ GeminiCalled
    /\ probe.client = Raise("InvalidArgument", <<"API_KEY_INVALID">>)
    /\ probe.result.ret.outcome = Return(MsgKeyInvalid)
    /\ Len(probe.result.ret.sent) = 1

\* C6: with no lookup key configured, a click with non-blank text still calls
\* lookup_calories_calorieninjas, which returns the "unavailable" message, and
\* no HTTP request is made.
C6_NoKeyStillLooksUp ==
    (~CALORIE_NINJAS_KEY /\ inp.analyze /\ Strip(inp.unified_input) # <<>>)
        => /\ calls.lookup = <<inp.unified_input>>
           /\ LookupShown(ui) = MsgNoKey
           /\ calls.http = <<>>
           /\ \A q \in Texts : httpLog[q] = 0

C6_Witness ==
    /\ ~CALORIE_NINJAS_KEY /\ inp.analyze
    /\ inp.unified_input = <<"a">>
    /\ inp.uploaded_file # None
    /\ calls.lookup = <<inp.unified_input>>
    /\ LookupShown(ui) = MsgNoKey

\* C7 as claimed: the context handed to the AI client is the trimmed text.
C7_ContextTrimmed ==
    (inp.analyze /\ calls.gemini # <<>>)
        => calls.gemini[1].context = Strip(inp.unified_input)

\* C7: when the upload could be prepared, get_gemini_response is called once
\* with the text box content exactly as typed (the empty string when nothing was
\* typed) as context: leading and trailing whitespace is passed to the client.
C7_ContextAsTyped ==
    inp.analyze =>
        /\ Len(calls.gemini) = (IF Prepared(inp.uploaded_file) THEN 1 ELSE 0)
        /\ \A i \in 1..Len(calls.gemini) :
              /\ calls.gemini[i].context = inp.unified_input
              /\ calls.gemini[i].prompt = input_prompt

C7_Witness ==
    /\ inp.analyze
    /\ inp.unified_input = <<" ", "a">>
    /\ calls.gemini # <<>>
    /\ calls.gemini[1].context = <<" ", "a">>
    /\ calls.gemini[1].context # Strip(inp.unified_input)

TypeMissingOrInvalid(f) == ~f.type.ok \/ f.type.value \notin ValidMime

\* C8 as claimed: an upload whose type is missing or invalid gets the "could
\* not prepare" result and the AI client is not called.
C8_BadTypeDegrades ==
    (inp.analyze /\ inp.uploaded_file # None /\ TypeMissingOrInvalid(inp.uploaded_file))
        => /\ Count(ui, "exception") = 0
           /\ Count(ui, "warning") > 0
           /\ calls.gemini = <<>>

\* C8: input_image_setup never raises.  The "could not prepare" result, with
\* no call of the AI client, is given exactly when reading the upload's content
\* or type raises; a type that can be read, be it None or not an image type,
\* goes into the payload as it is and the AI client is called with it.
C8_OnlyUnreadableDegrades ==
    (inp.analyze /\ inp.uploaded_file # None)
        => /\ Count(ui, "exception") = 0
           /\ calls.setup = 1
           /\ Unreadable(inp.uploaded_file)
                => /\ ui[2] = Widget("warning",
                                     <<"Unable to prepare image for upload: ">>
                                     \o (IF ~inp.uploaded_file.getvalue.ok
                                         THEN <<"getvalue">> ELSE <<"type">>))
                   /\ ui[3] = Widget("warning", MsgNotPrepared)
                   /\ calls.gemini = <<>>
           /\ ~Unreadable(inp.uploaded_file)
                => /\ Count(ui, "warning") = 0
                   /\ Len(calls.gemini) = 1
                   /\ calls.gemini[1].image =
                          [data |-> inp.uploaded_file.getvalue.value,
                           mime_type |-> inp.uploaded_file.type.value]

C8_Witness ==
    /\ inp.analyze
    /\ inp.uploaded_file = UploadedFile(Attr("bytes"), Attr(None))
    /\ Len(calls.gemini) = 1
    /\ calls.gemini[1].image.mime_type = None
    /\ Count(ui, "warning") = 0

\* a step in which Analyze is clicked (the service answers as before)
ClickStep == service' = service /\ inp'.analyze

\* C9: when the lookup is called with the query of the call before it, and the
\* service answers now as it answered then, the result is the same.
C9_SameQuerySameResult ==
    [][(ClickStep /\ inp.analyze /\ calls.lookup # <<>> /\ calls'.lookup = calls.lookup
            /\ inp'.service = inp.service)
        => LookupShown(ui') = LookupShown(ui)]_vars

C9_Witness ==
    /\ inp.analyze /\ CALORIE_NINJAS_KEY
    /\ calls.lookup = <<inp.unified_input>>
    /\ calls.hit
    /\ inp.service = service
    /\ LookupShown(ui) = LookupBody(inp.unified_input, CALORIE_NINJAS_KEY, service).outcome.value
    /\ Len(LookupShown(ui)) > 2

\* C10: at most one HTTP request is made per query string; an entry of the memo
\* never changes, and a later call with its query returns the entry's value with
\* no request, whatever the service would answer now.
C10_OneRequestPerQuery ==
    /\ [](\A q \in Texts : httpLog[q] <= 1)
    /\ [][\A e \in cache :
            /\ e \in cache'
            /\ httpLog'[e.key] = httpLog[e.key]
            /\ (ClickStep /\ calls'.lookup = <<e.key>>)
                 => (calls'.hit /\ calls'.http = <<>> /\ LookupShown(ui') = e.value)]_vars

C10_Witness ==
    /\ inp.analyze /\ CALORIE_NINJAS_KEY
    /\ calls.lookup = <<inp.unified_input>>
    /\ calls.hit /\ calls.http = <<>>
    /\ httpLog[inp.unified_input] = 1
    /\ Head(LookupShown(ui)) = PrefixTransport
    /\ inp.service = Ok([items |-> <<Rice>>, json |-> "object"])

====
